---- MODULE Spec2Model ----
(***************************************************************************)
(* A model of the foodgram recipe API (backend/api): the relational store  *)
(* it reads and writes (Recipe, IngredientInRecipe, the recipe/tag links,  *)
(* Favorite, ShoppingCart, Follow) and its request handlers, one action    *)
(* per handler, each request run to completion.                            *)
(*                                                                         *)
(* The store runs in Django's default autocommit mode: the handlers open   *)
(* no transaction (no `atomic` anywhere in views.py or serializer.py), so  *)
(* every ORM write is durable as soon as it is made.  Favorite,            *)
(* ShoppingCart and Follow are bags of rows, so a second row of a pair     *)
(* would show: what keeps a pair unique is the handlers' own checks, and   *)
(* an insert goes through whatever the table holds, as views.py and        *)
(* serializer.py write it (nothing in them declares, catches or relies on  *)
(* a key constraint).                                                      *)
(***************************************************************************)
EXTENDS Integers, Sequences, FiniteSets, Bags, TLC

VARIABLES
    Recipe,             \* set of recipe rows
    IngredientInRecipe, \* set of rows [recipe, ingredient, amount]
    RecipeTags,         \* set of rows [recipe, tag] (Recipe.tags)
    Favorite,           \* bag of rows [user, recipe]
    ShoppingCart,       \* bag of rows [user, recipe]
    Follow,             \* bag of rows [user, author]
    recipe_id_seq,      \* last id the Recipe table issued (AutoField)
    request,            \* the last request handled
    response            \* and its response

store == <<Recipe, IngredientInRecipe, RecipeTags, Favorite, ShoppingCart, Follow,
           recipe_id_seq>>
vars == <<Recipe, IngredientInRecipe, RecipeTags, Favorite, ShoppingCart, Follow,
          recipe_id_seq, request, response>>

(* ------------------------------ bounds -------------------------------- *)
NUsers == 2         \* users 1..NUsers exist
MaxRecipes == 2     \* recipes ever created (ids the Recipe table issues)
MaxLen == 2         \* longest submitted ingredient list
MaxRows == 3        \* join rows held at once under SpecFrame

Users == 1..NUsers
Anonymous == 0
UserPks == 1..(NUsers + 1)        \* the last one names no user
RecipePks == 1..(MaxRecipes + 1)  \* the last one never names a recipe

(* --------------------------- reference data --------------------------- *)
\* Ingredient rows: id -> (name, measurement_unit).  Ingredients 1 and 3
\* share their name and differ in unit; id 4 names no ingredient.
Ingredient ==
    (1 :> [name |-> "flour", measurement_unit |-> "g"]) @@
    (2 :> [name |-> "salt", measurement_unit |-> "g"]) @@
    (3 :> [name |-> "flour", measurement_unit |-> "cup"])
IngredientIds == DOMAIN Ingredient
Tag == {1, 2}       \* ids of the Tag rows

(* ------------------------------ queries ------------------------------- *)
NoRecipe == [id |-> 0]

RecipeIds == {r.id : r \in Recipe}

\* get_object_or_404(Recipe, id=pk): the row, or NoRecipe for Http404
GetRecipe(pk) ==
    IF pk \in RecipeIds THEN CHOOSE r \in Recipe : r.id = pk ELSE NoRecipe

\* Favorite.objects.filter(user=u, recipe=r).exists()
FavoriteExists(u, pk) == BagIn([user |-> u, recipe |-> pk], Favorite)

\* ShoppingCart.objects.filter(user=u, recipe=r).exists()
ShoppingCartExists(u, pk) == BagIn([user |-> u, recipe |-> pk], ShoppingCart)

\* Follow.objects.filter(author=a, user=u)
FollowExists(u, a) == BagIn([user |-> u, author |-> a], Follow)

\* QuerySet.delete(): every copy of the row goes
DeleteRows(bag, row) == [x \in (DOMAIN bag) \ {row} |-> bag[x]]

\* Model.objects.create(...): one more row, whatever the table holds
CreateRow(bag, row) == bag (+) SetToBag({row})

\* the rows of a join table that go with recipe pk when it is deleted
\* (the foreign key to Recipe cascades)
CascadeRows(bag, pk) ==
    [x \in {y \in DOMAIN bag : y.recipe # pk} |-> bag[x]]

(* --------------------------- representations -------------------------- *)
\* RecipeSerializer: the summary view
RecipeSerializer(r) ==
    [id |-> r.id, name |-> r.name, image |-> r.image,
     cooking_time |-> r.cooking_time]

\* UsersSerializer.get_is_subscribed
get_is_subscribed(caller, u) ==
    IF caller = Anonymous THEN FALSE ELSE FollowExists(caller, u)

\* UsersSerializer
UsersSerializer(caller, u) ==
    [id |-> u, is_subscribed |-> get_is_subscribed(caller, u)]

\* FollowSerializer (no recipes_limit in the query)
FollowSerializer(caller, u) ==
    [id |-> u, is_subscribed |-> get_is_subscribed(caller, u),
     recipes |-> {RecipeSerializer(r) : r \in {x \in Recipe : x.author = u}},
     recipes_count |-> Cardinality({x \in Recipe : x.author = u})]

\* Responses.  A fault is an exception no handler of the framework turns
\* into a response: the server answers 500.
Resp(status, body) == [status |-> status, body |-> body]
Fault(exc) == [status |-> 500, body |-> [exception |-> exc]]
Req(action, u, pk) == [action |-> action, user |-> u, pk |-> pk]


NoContent == [detail |-> "no content"]
NotFound == Resp(404, [detail |-> "Not found."])
ValidationError(msg) == Resp(400, [errors |-> msg])

\* FavoriteSerializer.validate / ShoppingCartSerializer.validate
FavoriteSerializer_validate(u, pk) == ~FavoriteExists(u, pk)

\* FavoriteSerializer.to_representation(instance): RecipeSerializer of
\* instance.recipe.  A Favorite row has a recipe; a Recipe row (what
\* shopping_cart hands in) has no attribute of that name.
FavoriteSerializer_to_representation(instance) ==
    IF "recipe" \in DOMAIN instance
    THEN [ok |-> TRUE, data |-> RecipeSerializer(GetRecipe(instance.recipe))]
    ELSE [ok |-> FALSE, data |-> "AttributeError"]

\* FollowPostSerializer.validate
FollowPostSerializer_validate_noself(user_me, author) ==
    IF FollowExists(user_me, author) THEN "subscribed" ELSE "valid"

FollowPostSerializer_validate(user_me, author) ==
    IF user_me = author THEN "self"
    ELSE IF FollowExists(user_me, author) THEN "subscribed"
    ELSE "valid"

(* --------------------------- toggle handlers -------------------------- *)
\* what a handler leaves alone
RecipesUnchanged ==
    UNCHANGED <<Recipe, IngredientInRecipe, RecipeTags, recipe_id_seq>>

\* the handler answers and writes nothing
Answer(req, resp) ==
    /\ request' = req
    /\ response' = resp
    /\ UNCHANGED store

\* POST /recipes/{pk}/favorite
favorite(u, pk) ==
    LET recipe == GetRecipe(pk)
        req == Req("favorite", u, pk)
    IN  IF recipe = NoRecipe THEN Answer(req, NotFound)
        ELSE IF FavoriteExists(u, pk)
        THEN Answer(req, ValidationError("already in favorites"))
        ELSE IF ~FavoriteSerializer_validate(u, pk)
        THEN Answer(req, ValidationError("already in favorites"))
        ELSE LET row == [user |-> u, recipe |-> pk]
                 rep == FavoriteSerializer_to_representation(row)
             IN  /\ Favorite' = CreateRow(Favorite, row)
                 /\ request' = req
                 /\ response' = IF rep.ok THEN Resp(201, rep.data)
                                ELSE Fault(rep.data)
                 /\ UNCHANGED <<ShoppingCart, Follow>>
                 /\ RecipesUnchanged

\* DELETE /recipes/{pk}/favorite, its filter by the caller alone
delete_recipe_every_favorite(u, pk) ==
    LET recipe == GetRecipe(pk)
        req == Req("delete_recipe", u, pk)
    IN  IF recipe = NoRecipe THEN Answer(req, NotFound)
        ELSE IF ~FavoriteExists(u, pk)
        THEN Answer(req, Fault("TypeError"))
        ELSE /\ Favorite' = [x \in {y \in DOMAIN Favorite : y.user # u}
                                 |-> Favorite[x]]
             /\ request' = req
             /\ response' = Resp(204, NoContent)
             /\ UNCHANGED <<ShoppingCart, Follow>>
             /\ RecipesUnchanged

\* DELETE /recipes/{pk}/favorite
delete_recipe(u, pk) ==
    LET recipe == GetRecipe(pk)
        req == Req("delete_recipe", u, pk)
    IN  IF recipe = NoRecipe THEN Answer(req, NotFound)
        ELSE IF ~FavoriteExists(u, pk)
        \* `raise Response(...)`: a Response is no exception, the raise
        \* statement itself fails with TypeError
        THEN Answer(req, Fault("TypeError"))
        ELSE /\ Favorite' = DeleteRows(Favorite, [user |-> u, recipe |-> pk])
             /\ request' = req
             /\ response' = Resp(204, NoContent)
             /\ UNCHANGED <<ShoppingCart, Follow>>
             /\ RecipesUnchanged

\* POST /recipes/{pk}/shopping_cart, without its existence check
shopping_cart_unchecked(u, pk) ==
    LET recipe == GetRecipe(pk)
        req == Req("shopping_cart", u, pk)
    IN  IF recipe = NoRecipe THEN Answer(req, NotFound)
        ELSE LET rep == FavoriteSerializer_to_representation(recipe)
             IN  /\ ShoppingCart' =
                        CreateRow(ShoppingCart, [user |-> u, recipe |-> pk])
                 /\ request' = req
                 /\ response' = IF rep.ok THEN Resp(201, rep.data)
                                ELSE Fault(rep.data)
                 /\ UNCHANGED <<Favorite, Follow>>
                 /\ RecipesUnchanged

\* POST /recipes/{pk}/shopping_cart
shopping_cart(u, pk) ==
    LET recipe == GetRecipe(pk)
        req == Req("shopping_cart", u, pk)
    IN  IF recipe = NoRecipe THEN Answer(req, NotFound)
        ELSE IF ShoppingCartExists(u, pk)
        THEN Answer(req, ValidationError("already in the shopping list"))
        ELSE LET rep == FavoriteSerializer_to_representation(recipe)
             IN  \* the row is created first, the response built after
                 /\ ShoppingCart' =
                        CreateRow(ShoppingCart, [user |-> u, recipe |-> pk])
                 /\ request' = req
                 /\ response' = IF rep.ok THEN Resp(201, rep.data)
                                ELSE Fault(rep.data)
                 /\ UNCHANGED <<Favorite, Follow>>
                 /\ RecipesUnchanged

\* DELETE /recipes/{pk}/shopping_cart
shopping_cart_delete(u, pk) ==
    LET recipe == GetRecipe(pk)
        req == Req("shopping_cart_delete", u, pk)
    IN  IF recipe = NoRecipe THEN Answer(req, NotFound)
        ELSE IF ~ShoppingCartExists(u, pk)
        THEN Answer(req, ValidationError("not in the shopping list"))
        ELSE /\ ShoppingCart' =
                    DeleteRows(ShoppingCart, [user |-> u, recipe |-> pk])
             /\ request' = req
             /\ response' = Resp(204, NoContent)
             /\ UNCHANGED <<Favorite, Follow>>
             /\ RecipesUnchanged

\* POST /users/{pk}/subscribe
subscribe(u, pk) ==
    LET req == Req("subscribe", u, pk)
        verdict == FollowPostSerializer_validate(u, pk)
    IN  IF pk \notin Users THEN Answer(req, NotFound)
        ELSE IF verdict = "self"
        THEN Answer(req, ValidationError("cannot follow yourself"))
        ELSE IF verdict = "subscribed"
        THEN Answer(req, ValidationError("already subscribed"))
        ELSE /\ Follow' = CreateRow(Follow, [user |-> u, author |-> pk])
             /\ request' = req
             \* serializer.data is built after the row is saved
             /\ response' = Resp(201,
                    [id |-> pk, is_subscribed |-> TRUE,
                     recipes |-> FollowSerializer(u, pk).recipes,
                     recipes_count |-> FollowSerializer(u, pk).recipes_count])
             /\ UNCHANGED <<Favorite, ShoppingCart>>
             /\ RecipesUnchanged

\* DELETE /users/{pk}/subscribe
subscribe_delete(u, pk) ==
    LET req == Req("subscribe_delete", u, pk)
    IN  IF pk \notin Users THEN Answer(req, NotFound)
        ELSE IF ~FollowExists(u, pk)
        THEN Answer(req, ValidationError("was not subscribed"))
        ELSE /\ Follow' = DeleteRows(Follow, [user |-> u, author |-> pk])
             /\ request' = req
             /\ response' = Resp(204, NoContent)
             /\ UNCHANGED <<Favorite, ShoppingCart>>
             /\ RecipesUnchanged

(* ----------------------- recipe write path ----------------------------- *)
\* A JSON value submitted as an ingredient id: the number n or the string
\* of its digits.  Python compares the two unequal (1 != "1").
JNum(n) == [json |-> "number", digits |-> n]
JStr(n) == [json |-> "string", digits |-> n]

\* serializers.IntegerField.to_internal_value: both forms parse to the int
IntegerField(raw) == raw.digits

\* CreateIngredientsInRecipeSerializer.validate_amount
validate_amount(value) == value >= 1

\* field validation of the submission (to_internal_value of every field):
\* each amount through validate_amount, each tag id through
\* PrimaryKeyRelatedField(queryset=Tag.objects.all())
FieldsValid(data) ==
    /\ \A i \in 1..Len(data.ingredients) :
           validate_amount(data.ingredients[i].amount)
    /\ \A i \in 1..Len(data.tags) : data.tags[i] \in Tag

\* CreateRecipeSerializer.validate: the ids of initial_data, as submitted,
\* must not repeat (`ingredient['id'] in lst_ingredient`)
CreateRecipeSerializer_validate(data) ==
    \A i, j \in 1..Len(data.ingredients) :
        i < j => data.ingredients[i].id # data.ingredients[j].id

\* serializer.is_valid(): the fields first, validate() after them
is_valid(data) == FieldsValid(data) /\ CreateRecipeSerializer_validate(data)

\* validated_data['ingredients']: the entries with their ids parsed
ValidatedIngredients(data) ==
    [i \in 1..Len(data.ingredients) |->
        [id |-> IntegerField(data.ingredients[i].id),
         amount |-> data.ingredients[i].amount]]

\* index of the first entry whose id names no Ingredient (0: none), where
\* get_object_or_404(Ingredient, pk=item['id']) raises Http404
FirstMissing(items) ==
    IF \E i \in 1..Len(items) : items[i].id \notin IngredientIds
    THEN CHOOSE i \in 1..Len(items) :
             /\ items[i].id \notin IngredientIds
             /\ \A j \in 1..(i - 1) : items[j].id \in IngredientIds
    ELSE 0

\* CreateRecipeSerializer.recipe_create_or_update(instance, validated_data):
\* get_or_create of one IngredientInRecipe row per entry, in order, up to
\* the first Http404; then tags.add of every tag.  What it has written
\* when it stops stays written.
recipe_create_or_update(rid, items, tags) ==
    LET k == FirstMissing(items)
        done == IF k = 0 THEN Len(items) ELSE k - 1
    IN  [ok |-> k = 0,
         rows |-> {[recipe |-> rid, ingredient |-> items[i].id,
                    amount |-> items[i].amount] : i \in 1..done},
         tags |-> IF k = 0
                  THEN {[recipe |-> rid, tag |-> tags[i]] : i \in 1..Len(tags)}
                  ELSE {}]

\* instance.ingredients.clear() left out: the rows stay
ingredients_clear_none(pk) == IngredientInRecipe

\* instance.ingredients.clear(): the rows of the other recipes stay
ingredients_clear(pk) == {x \in IngredientInRecipe : x.recipe # pk}

\* instance.tags.clear()
tags_clear(pk) == {x \in RecipeTags : x.recipe # pk}

\* RecipeViewSerializer.get_is_favorited / get_is_in_shopping_cart
get_is_favorited(caller, pk) ==
    IF caller = Anonymous THEN FALSE ELSE FavoriteExists(caller, pk)
get_is_in_shopping_cart(caller, pk) ==
    IF caller = Anonymous THEN FALSE ELSE ShoppingCartExists(caller, pk)

\* RecipeViewSerializer: the full view of recipe r, read from the
\* IngredientInRecipe rows iir and the tag links rt
RecipeViewSerializer(caller, r, iir, rt) ==
    [id |-> r.id,
     tags |-> {x.tag : x \in {y \in rt : y.recipe = r.id}},
     author |-> UsersSerializer(caller, r.author),
     ingredients |->
        {[id |-> x.ingredient, name |-> Ingredient[x.ingredient].name,
          measurement_unit |-> Ingredient[x.ingredient].measurement_unit,
          amount |-> x.amount] : x \in {y \in iir : y.recipe = r.id}},
     is_favorited |-> get_is_favorited(caller, r.id),
     is_in_shopping_cart |-> get_is_in_shopping_cart(caller, r.id),
     name |-> r.name, image |-> r.image, text |-> r.text,
     cooking_time |-> r.cooking_time]

\* RecipeViewSet.get_serializer_class
get_serializer_class(action) ==
    IF action \in {"list", "retrieve"} THEN "RecipeSerializer"
    ELSE IF action \in {"create", "partial_update"}
    THEN "CreateRecipeSerializer"
    ELSE "None"

\* serializer.data of the class get_serializer_class names
\* (CreateRecipeSerializer.to_representation is RecipeViewSerializer)
SerializerData(action, caller, r, iir, rt) ==
    IF get_serializer_class(action) = "RecipeSerializer"
    THEN RecipeSerializer(r)
    ELSE RecipeViewSerializer(caller, r, iir, rt)

TogglesUnchanged == UNCHANGED <<Favorite, ShoppingCart, Follow>>
Handled(req) == Req(req.action, req.user, req.pk)
Awaiting == Resp(0, [detail |-> "awaiting"])

\* a request arrives: it is the one handled next
receive(req) ==
    /\ response # Awaiting
    /\ request' = req
    /\ response' = Awaiting
    /\ UNCHANGED store

\* POST /recipes/ (CreateModelMixin.create, perform_create,
\* CreateRecipeSerializer.create)
create ==
    /\ response = Awaiting
    /\ request.action = "create"
    /\ request' = Handled(request)
    /\ TogglesUnchanged
    /\ LET data == request.data
           \* Recipe.objects.create: the next id of the sequence, never
           \* one issued before, whatever was deleted since
           rid == recipe_id_seq + 1
           recipe == [id |-> rid, author |-> request.user,
                      name |-> data.name, image |-> data.image,
                      text |-> data.text,
                      cooking_time |-> data.cooking_time]
           m == recipe_create_or_update(rid, ValidatedIngredients(data),
                                        data.tags)
       IN  IF ~is_valid(data)
           THEN /\ response' = ValidationError("invalid")
                /\ RecipesUnchanged
           ELSE /\ Recipe' = Recipe \cup {recipe}
                /\ recipe_id_seq' = rid
                /\ IngredientInRecipe' = IngredientInRecipe \cup m.rows
                /\ RecipeTags' = RecipeTags \cup m.tags
                /\ response' =
                     IF m.ok
                     THEN Resp(201, SerializerData("create", request.user,
                               recipe, IngredientInRecipe', RecipeTags'))
                     ELSE NotFound

\* PATCH /recipes/{pk}/ (UpdateModelMixin.partial_update,
\* CreateRecipeSerializer.update)
partial_update ==
    /\ response = Awaiting
    /\ request.action = "partial_update"
    /\ request' = Handled(request)
    /\ TogglesUnchanged
    /\ LET data == request.data
           pk == request.pk
           instance == GetRecipe(pk)
           m == recipe_create_or_update(pk, ValidatedIngredients(data),
                                        data.tags)
           cleared_rows == ingredients_clear(pk)
           cleared_tags == tags_clear(pk)
           \* super().update(instance, validated_data)
           updated == [instance EXCEPT !.name = data.name,
                           !.image = data.image, !.text = data.text,
                           !.cooking_time = data.cooking_time]
       IN  IF instance = NoRecipe
           THEN /\ response' = NotFound
                /\ RecipesUnchanged
           ELSE IF ~is_valid(data)
           THEN /\ response' = ValidationError("invalid")
                /\ RecipesUnchanged
           ELSE /\ IngredientInRecipe' = cleared_rows \cup m.rows
                /\ RecipeTags' = cleared_tags \cup m.tags
                /\ UNCHANGED recipe_id_seq
                /\ Recipe' = IF m.ok
                             THEN (Recipe \ {instance}) \cup {updated}
                             ELSE Recipe
                /\ response' =
                     IF m.ok
                     THEN Resp(200, SerializerData("partial_update",
                               request.user, updated,
                               IngredientInRecipe', RecipeTags'))
                     ELSE NotFound

\* PUT /recipes/{pk}/ (UpdateModelMixin.update): get_object, then
\* get_serializer, whose class get_serializer_class gives as None for this
\* action: calling it fails with TypeError
update ==
    /\ response = Awaiting
    /\ request.action = "update"
    /\ request' = Handled(request)
    /\ UNCHANGED store
    /\ response' = IF GetRecipe(request.pk) = NoRecipe THEN NotFound
                    ELSE IF get_serializer_class("update") = "None"
                    THEN Fault("TypeError")
                    ELSE ValidationError("invalid")

\* DELETE /recipes/{pk}/ (DestroyModelMixin.destroy): get_object, then
\* instance.delete(), which takes the rows that refer to the recipe along
destroy ==
    /\ response = Awaiting
    /\ request.action = "destroy"
    /\ request' = Handled(request)
    /\ UNCHANGED <<Follow, recipe_id_seq>>
    /\ LET pk == request.pk
           instance == GetRecipe(pk)
       IN  IF instance = NoRecipe
           THEN /\ response' = NotFound
                /\ UNCHANGED <<Recipe, IngredientInRecipe, RecipeTags,
                               Favorite, ShoppingCart>>
           ELSE /\ Recipe' = Recipe \ {instance}
                /\ IngredientInRecipe' = ingredients_clear(pk)
                /\ RecipeTags' = tags_clear(pk)
                /\ Favorite' = CascadeRows(Favorite, pk)
                /\ ShoppingCart' = CascadeRows(ShoppingCart, pk)
                /\ response' = Resp(204, NoContent)

\* RetrieveModelMixin.retrieve: get_object, then serializer.data
RetrieveResponse(caller, pk) ==
    LET instance == GetRecipe(pk)
    IN  IF instance = NoRecipe THEN NotFound
        ELSE Resp(200, SerializerData("retrieve", caller, instance,
                  IngredientInRecipe, RecipeTags))

\* GET /recipes/{pk}/
retrieve ==
    /\ response = Awaiting
    /\ request.action = "retrieve"
    /\ request' = Handled(request)
    /\ UNCHANGED store
    /\ response' = RetrieveResponse(request.user, request.pk)

(* ----------------------------- recipe list ---------------------------- *)
\* a query parameter that is not in the query string
Absent == "absent"

\* RecipeFilter.is_recipe_in_favorites_filter(queryset, name, value): it
\* filters self.queryset, the whole Recipe table, not the queryset passed in
is_recipe_in_favorites_filter(caller, queryset, value) ==
    IF caller # Anonymous
    THEN IF value = "1"
         THEN {r \in Recipe : FavoriteExists(caller, r.id)}
         ELSE {r \in Recipe : ~FavoriteExists(caller, r.id)}
    ELSE Recipe

\* RecipeFilter.get_is_in_shopping_cart(*args, **kwargs)
RecipeFilter_get_is_in_shopping_cart(caller, queryset, value) ==
    IF caller # Anonymous
    THEN IF value = "1"
         THEN {r \in Recipe : ShoppingCartExists(caller, r.id)}
         ELSE {r \in Recipe : ~ShoppingCartExists(caller, r.id)}
    ELSE Recipe

\* the methods RecipeFilter defines, and the method each filter names
RecipeFilterMethods == {"is_recipe_in_favorites_filter", "get_is_in_shopping_cart"}
is_favorited_method == "is_recipe_in_favorites_filter"
is_in_shopping_cart_method == "is_recipe_in_shoppingcart_filter"

\* django_filters FilterMethod: an empty value leaves the queryset alone;
\* otherwise the named method of the FilterSet is looked up (an
\* AssertionError when the FilterSet has no such method) and called
FilterMethod(method, caller, queryset, value) ==
    IF value = Absent THEN [ok |-> TRUE, qs |-> queryset]
    ELSE IF method \notin RecipeFilterMethods
    THEN [ok |-> FALSE, qs |-> {}]
    ELSE IF method = "is_recipe_in_favorites_filter"
    THEN [ok |-> TRUE,
          qs |-> is_recipe_in_favorites_filter(caller, queryset, value)]
    ELSE [ok |-> TRUE,
          qs |-> RecipeFilter_get_is_in_shopping_cart(caller, queryset, value)]

ListReq(caller, fav, cart) ==
    [action |-> "list", user |-> caller, pk |-> 0,
     is_favorited |-> fav, is_in_shopping_cart |-> cart]

\* GET /recipes/?is_favorited=..&is_in_shopping_cart=..
\* (RecipeFilter over Recipe.objects.all(), then RecipeSerializer, many)
list(caller, fav, cart) ==
    LET f1 == FilterMethod(is_favorited_method, caller, Recipe, fav)
        f2 == FilterMethod(is_in_shopping_cart_method, caller, f1.qs, cart)
    IN  /\ request' = ListReq(caller, fav, cart)
        /\ response' =
             IF f1.ok /\ f2.ok
             THEN Resp(200, [results |-> {SerializerData("list", caller, r,
                                 IngredientInRecipe, RecipeTags) : r \in f2.qs}])
             ELSE Fault("AssertionError")
        /\ UNCHANGED store

(* --------------------------- shopping list ---------------------------- *)
RECURSIVE SumAmount(_)
\* Sum('amount') over the joined rows of one group
SumAmount(rows) ==
    IF rows = {} THEN 0
    ELSE LET x == CHOOSE y \in rows : TRUE
         IN  x.amount * x.copies + SumAmount(rows \ {x})

\* the join of every user's cart, kept apart from the caller's
CartIngredients_anyuser(u) ==
    {[recipe |-> x.recipe, ingredient |-> x.ingredient, amount |-> x.amount,
      copies |-> 1] :
        x \in {y \in IngredientInRecipe :
                 \E v \in Users : ShoppingCartExists(v, y.recipe)}}

\* IngredientInRecipe.objects.filter(recipe__shopping_recipe__user=u): the
\* join yields an IngredientInRecipe row once per ShoppingCart row of u for
\* its recipe
CartIngredients(u) ==
    {[recipe |-> x.recipe, ingredient |-> x.ingredient, amount |-> x.amount,
      copies |-> CopiesIn([user |-> u, recipe |-> x.recipe], ShoppingCart)] :
        x \in {y \in IngredientInRecipe : ShoppingCartExists(u, y.recipe)}}

\* .values('ingredient__name', 'ingredient__measurement_unit')
\* .annotate(sum=Sum('amount')): one row per (name, unit) group
AnnotateSum(joined) ==
    {[ingredient__name |-> g.name,
      ingredient__measurement_unit |-> g.measurement_unit,
      sum |-> SumAmount({x \in joined : Ingredient[x.ingredient] = g})] :
        g \in {Ingredient[x.ingredient] : x \in joined}}

\* ingredients_to_txt: "<name>  - <sum>(<unit>)\n" per row; the lines as a
\* set, their order being the store's
ingredients_to_txt(ingredients) ==
    {<<i.ingredient__name, "  - ", i.sum, "(",
       i.ingredient__measurement_unit, ")\n">> : i \in ingredients}

\* GET /recipes/download_shopping_cart
download_shopping_cart(u) ==
    LET ingredients == AnnotateSum(CartIngredients(u))
        shopping_list == ingredients_to_txt(ingredients)
    IN  /\ request' = Req("download_shopping_cart", u, 0)
        /\ response' = Resp(200, [text |-> shopping_list])
        /\ UNCHANGED store

(* ------------------- the toggle requests: Spec ------------------------ *)
\* A recipe published earlier, with no ingredient and no tag
SeedRecipe ==
    [id |-> 1, author |-> 1, name |-> "soup", image |-> "photo.png",
     text |-> "boil", cooking_time |-> 10]

NoRequest == Req("none", Anonymous, 0)
NoResponse == Resp(0, NoContent)

Init ==
    /\ Recipe = {SeedRecipe}
    /\ IngredientInRecipe = {}
    /\ RecipeTags = {}
    /\ Favorite = EmptyBag
    /\ ShoppingCart = EmptyBag
    /\ Follow = EmptyBag
    /\ recipe_id_seq = SeedRecipe.id
    /\ request = NoRequest
    /\ response = NoResponse

\* recipe ids a toggle request may name: the seeded one and one of no recipe
TogglePks == {SeedRecipe.id, SeedRecipe.id + 1}

Favorite_add == \E u \in Users, pk \in TogglePks : favorite(u, pk)
Favorite_remove == \E u \in Users, pk \in TogglePks : delete_recipe(u, pk)
Cart_add == \E u \in Users, pk \in TogglePks : shopping_cart(u, pk)
Cart_remove == \E u \in Users, pk \in TogglePks : shopping_cart_delete(u, pk)
Subscribe == \E u \in Users, pk \in UserPks : subscribe(u, pk)
Unsubscribe == \E u \in Users, pk \in UserPks : subscribe_delete(u, pk)

Next ==
    \/ Favorite_add
    \/ Favorite_remove
    \/ Cart_add
    \/ Cart_remove
    \/ Subscribe
    \/ Unsubscribe

Spec == Init /\ [][Next]_vars

(* ------------------------- claims on the toggles ---------------------- *)
FavoriteRow(req) == [user |-> req.user, recipe |-> req.pk]

\* C1: after any sequence of favorite, cart and subscribe requests, each run
\* to completion, no (user, recipe) pair has more than one Favorite row or
\* more than one ShoppingCart row, and no (follower, author) pair has more
\* than one Follow row.
C1_AtMostOneRowPerPair ==
    /\ \A row \in DOMAIN Favorite : Favorite[row] <= 1
    /\ \A row \in DOMAIN ShoppingCart : ShoppingCart[row] <= 1
    /\ \A row \in DOMAIN Follow : Follow[row] <= 1

\* every relation holds a row and the last request was an add for a pair
\* that already had one
C1_Witness ==
    /\ request.action = "shopping_cart"
    /\ response.status = 400
    /\ CopiesIn(FavoriteRow(request), ShoppingCart) = 1
    /\ BagCardinality(Favorite) > 0
    /\ BagCardinality(Follow) > 0

\* the request just handled (request') was an add for a pair that had a row,
\* or a remove for a pair that had none, judged on the store before it
C2_AddTwiceOrRemoveMissing ==
    \/ /\ request'.action = "favorite"
       /\ FavoriteExists(request'.user, request'.pk)
    \/ /\ request'.action = "delete_recipe"
       /\ request'.pk \in RecipeIds
       /\ ~FavoriteExists(request'.user, request'.pk)
    \/ /\ request'.action = "shopping_cart"
       /\ ShoppingCartExists(request'.user, request'.pk)
    \/ /\ request'.action = "shopping_cart_delete"
       /\ request'.pk \in RecipeIds
       /\ ~ShoppingCartExists(request'.user, request'.pk)
    \/ /\ request'.action = "subscribe"
       /\ FollowExists(request'.user, request'.pk)
    \/ /\ request'.action = "subscribe_delete"
       /\ request'.pk \in Users
       /\ ~FollowExists(request'.user, request'.pk)

\* C2: an add for a pair that already has a row, and a remove for a pair
\* that has none, end in a 400 response and leave the store unchanged.
C2_RejectedWith400 ==
    [][C2_AddTwiceOrRemoveMissing =>
         (response'.status = 400 /\ UNCHANGED store)]_vars

\* C3: a cart add of an existing recipe that is not in the caller's cart
\* creates exactly one ShoppingCart row for (caller, recipe) and is answered
\* 201 with the summary view of the recipe.
C3_CartAddAnswers201 ==
    [][(/\ request'.action = "shopping_cart"
        /\ request'.pk \in RecipeIds
        /\ ~ShoppingCartExists(request'.user, request'.pk))
       => (/\ CopiesIn(FavoriteRow(request'), ShoppingCart') = 1
           /\ response' = Resp(201, RecipeSerializer(GetRecipe(request'.pk))))]_vars

\* C4: no Follow row has its follower equal to its author.
C4_NoSelfFollow == \A row \in DOMAIN Follow : row.user # row.author

\* a user asked to follow themself and was refused, with follows in the store
C4_Witness ==
    /\ request.action = "subscribe"
    /\ request.user = request.pk
    /\ response.status = 400
    /\ BagCardinality(Follow) > 0

(* ------------------ the recipe requests: SpecRecipe -------------------- *)
\* The recipe requests are issued by one authenticated user, the author of
\* every recipe (the ownership check, api/permissions.py, lets the author
\* through).
Author == SeedRecipe.author

\* ingredient ids as submitted: 1 as a number and as a string, 2, and 4,
\* which names no Ingredient
RawIds == {JNum(i) : i \in {1, 2, 4}} \cup {JStr(1)}
Amounts == {0, 1, 2}
Entries == [id : RawIds, amount : Amounts]
IngredientLists == UNION {[1..n -> Entries] : n \in 0..MaxLen}
TagLists == {<<>>, <<1>>}

Payloads ==
    {[ingredients |-> il, tags |-> tl, name |-> SeedRecipe.name,
      image |-> SeedRecipe.image, text |-> SeedRecipe.text,
      cooking_time |-> SeedRecipe.cooking_time] :
        il \in IngredientLists, tl \in TagLists}

WriteReq(action, u, pk, data) ==
    [action |-> action, user |-> u, pk |-> pk, data |-> data]

InitRecipe ==
    /\ Recipe = {}
    /\ IngredientInRecipe = {}
    /\ RecipeTags = {}
    /\ Favorite = EmptyBag
    /\ ShoppingCart = EmptyBag
    /\ Follow = EmptyBag
    /\ recipe_id_seq = 0
    /\ request = NoRequest
    /\ response = NoResponse

\* the Recipe table has ids left to issue
Room == recipe_id_seq < MaxRecipes

Receive_create ==
    /\ Room
    /\ \E data \in Payloads : receive(WriteReq("create", Author, 0, data))
Receive_partial_update ==
    \E pk \in RecipePks, data \in Payloads :
        receive(WriteReq("partial_update", Author, pk, data))
Receive_retrieve ==
    \E pk \in RecipePks : receive(Req("retrieve", Author, pk))
Receive_update ==
    \E pk \in RecipePks : receive(Req("update", Author, pk))
Receive_destroy ==
    \E pk \in RecipePks : receive(Req("destroy", Author, pk))

NextRecipe ==
    \/ Receive_create
    \/ Receive_partial_update
    \/ Receive_retrieve
    \/ Receive_update
    \/ Receive_destroy
    \/ create
    \/ partial_update
    \/ retrieve
    \/ update
    \/ destroy

SpecRecipe == InitRecipe /\ [][NextRecipe]_vars

(* --------------- recipe updates on valid input: SpecReplace ------------ *)
\* submissions that pass validation and name existing ingredients only
ValidEntries ==
    [id : {JNum(1)}, amount : {1, 2}] \cup [id : {JNum(2)}, amount : {2}]
ValidLists == UNION {[1..n -> ValidEntries] : n \in 0..MaxLen}

ValidPayloads ==
    {[ingredients |-> il, tags |-> tl, name |-> SeedRecipe.name,
      image |-> SeedRecipe.image, text |-> SeedRecipe.text,
      cooking_time |-> SeedRecipe.cooking_time] :
        il \in ValidLists, tl \in TagLists}

Submit_create ==
    /\ Room
    /\ \E data \in ValidPayloads : receive(WriteReq("create", Author, 0, data))
Submit_partial_update ==
    \E pk \in RecipePks, data \in ValidPayloads :
        receive(WriteReq("partial_update", Author, pk, data))

NextReplace ==
    \/ Submit_create
    \/ Submit_partial_update
    \/ Receive_retrieve
    \/ Receive_destroy
    \/ create
    \/ partial_update
    \/ retrieve
    \/ destroy

SpecReplace == InitRecipe /\ [][NextReplace]_vars

(* ----------------------- claims on the recipe writes ------------------- *)
Range(seq) == {seq[i] : i \in 1..Len(seq)}
Writes == {"create", "partial_update"}

\* the step handles the write request awaiting its answer
HandlesWrite == response = Awaiting /\ request.action \in Writes

\* (ingredient, amount) associations and tags of recipe pk
AssociationsOf(iir, pk) ==
    {[ingredient |-> x.ingredient, amount |-> x.amount] :
        x \in {y \in iir : y.recipe = pk}}
TagsOf(rt, pk) == {x.tag : x \in {y \in rt : y.recipe = pk}}

\* the associations a submission names, ids read as the integers they denote
SubmittedAssociations(data) ==
    {[ingredient |-> IntegerField(e.id), amount |-> e.amount] :
        e \in Range(data.ingredients)}

\* C5: after a successful update of recipe R with ingredient list I and tag
\* list T, the (ingredient, amount) associations of R are exactly those of I
\* and its tags exactly T, whatever it had before, and the associations of
\* every other recipe are unchanged.
C5_UpdateReplaces ==
    [][(/\ response = Awaiting
        /\ request.action = "partial_update"
        /\ response'.status = 200)
       => (/\ AssociationsOf(IngredientInRecipe', request.pk)
                = SubmittedAssociations(request.data)
           /\ TagsOf(RecipeTags', request.pk) = Range(request.data.tags)
           /\ \A r \in RecipeIds \ {request.pk} :
                /\ AssociationsOf(IngredientInRecipe', r)
                     = AssociationsOf(IngredientInRecipe, r)
                /\ TagsOf(RecipeTags', r) = TagsOf(RecipeTags, r))]_vars

\* an update of one of two recipes succeeded; both recipes have ingredients
\* and tags, and not the same ingredients
C5_Witness ==
    /\ request.action = "partial_update"
    /\ response.status = 200
    /\ Cardinality(Recipe) = 2
    /\ \A r \in RecipeIds :
         /\ AssociationsOf(IngredientInRecipe, r) # {}
         /\ TagsOf(RecipeTags, r) # {}
    /\ \E r \in RecipeIds :
         AssociationsOf(IngredientInRecipe, r)
            # AssociationsOf(IngredientInRecipe, request.pk)

\* some amount is below 1, or two entries name the same ingredient id
C6_BadSubmission(data) ==
    \/ \E i \in 1..Len(data.ingredients) : data.ingredients[i].amount < 1
    \/ \E i, j \in 1..Len(data.ingredients) :
         /\ i < j
         /\ IntegerField(data.ingredients[i].id)
              = IntegerField(data.ingredients[j].id)

\* C6: a create or update submission with an amount below 1 or with the
\* same ingredient id in two entries is answered with a validation error
\* and nothing is persisted.
C6_BadSubmissionRejected ==
    [][(/\ HandlesWrite
        /\ request.action = "partial_update" => request.pk \in RecipeIds
        /\ C6_BadSubmission(request.data))
       => (response'.status = 400 /\ UNCHANGED store)]_vars

\* C7: the body of a successful create or update is the full view of the
\* resulting recipe, and it is the body a retrieve of that recipe by the
\* same caller returns in the state the write leaves.
C7_WriteEchoesRetrieve ==
    [][(HandlesWrite /\ response'.status \in {200, 201})
       => LET written == CHOOSE r \in Recipe' : r.id = response'.body.id
          IN  /\ response'.body.id \in {r.id : r \in Recipe'}
              /\ response'.body =
                   RecipeViewSerializer(request.user, written,
                                        IngredientInRecipe', RecipeTags')
              /\ response'.body =
                   SerializerData("retrieve", request.user, written,
                                  IngredientInRecipe', RecipeTags')]_vars

\* C10: a create or update that fails leaves the recipes and their
\* ingredient and tag associations as they were.
C10_FailedWriteLeavesNothing ==
    [][(HandlesWrite /\ response'.status \notin {200, 201})
       => UNCHANGED <<Recipe, IngredientInRecipe, RecipeTags>>]_vars


(* ------------------ carts and their download: SpecCart ----------------- *)
\* recipes of flour by the gram (ingredient 1) and by the cup (ingredient 3)
CartEntries ==
    {[id |-> JNum(1), amount |-> 1], [id |-> JNum(3), amount |-> 2]}
CartLists == UNION {[1..n -> CartEntries] : n \in 0..MaxLen}

CartPayloads ==
    {[ingredients |-> il, tags |-> <<>>, name |-> SeedRecipe.name,
      image |-> SeedRecipe.image, text |-> SeedRecipe.text,
      cooking_time |-> SeedRecipe.cooking_time] : il \in CartLists}

\* no request is awaiting its answer
Idle == response # Awaiting

Publish ==
    /\ Room
    /\ \E data \in CartPayloads : receive(WriteReq("create", Author, 0, data))
Withdraw == \E pk \in RecipeIds : receive(Req("destroy", Author, pk))
Cart_put ==
    /\ Idle
    /\ \E u \in Users, pk \in RecipeIds : shopping_cart(u, pk)
Cart_take ==
    /\ Idle
    /\ \E u \in Users, pk \in RecipeIds : shopping_cart_delete(u, pk)
Download ==
    /\ Idle
    /\ \E u \in Users : download_shopping_cart(u)

NextCart ==
    \/ Publish
    \/ Withdraw
    \/ create
    \/ destroy
    \/ Cart_put
    \/ Cart_take
    \/ Download

SpecCart == InitRecipe /\ [][NextCart]_vars

(* ------------------- the recipe list: SpecList ------------------------ *)
QueryValues == {Absent, "1", "0"}
List ==
    \E caller \in Users \cup {Anonymous}, fav \in QueryValues,
       cart \in QueryValues : list(caller, fav, cart)

NextList ==
    \/ Favorite_add
    \/ Favorite_remove
    \/ Cart_add
    \/ Cart_remove
    \/ List

SpecList == Init /\ [][NextList]_vars

(* ------------------ claims on the list and the download ---------------- *)
\* the recipes the two parameters select for the caller: 1 selects, for an
\* authenticated caller, the recipes with a Favorite (ShoppingCart) row of
\* theirs; anything else selects every recipe
C8_Selected(caller, fav, cart) ==
    {r \in Recipe :
        /\ (fav = "1" /\ caller # Anonymous) => FavoriteExists(caller, r.id)
        /\ (cart = "1" /\ caller # Anonymous)
              => ShoppingCartExists(caller, r.id)}

\* C8: is_favorited=1 (is_in_shopping_cart=1) with an authenticated caller
\* lists exactly the recipes with a Favorite (ShoppingCart) row of the
\* caller; any other value, an absent parameter or an anonymous caller
\* leaves the list unfiltered, and the request does not fail.
C8_FilterByOneOnly ==
    request.action = "list" =>
        /\ response.status = 200
        /\ response.body.results =
             {RecipeSerializer(r) :
                r \in C8_Selected(request.user, request.is_favorited,
                                  request.is_in_shopping_cart)}

\* the recipes in the cart of u, each once
C9_CartRecipes(u) == {pk \in RecipeIds : ShoppingCartExists(u, pk)}

RECURSIVE C9_Total(_)
C9_Total(rows) ==
    IF rows = {} THEN 0
    ELSE LET x == CHOOSE y \in rows : TRUE
         IN  x.amount + C9_Total(rows \ {x})

\* one line per (name, unit) pair of the ingredient rows of the cart
\* recipes of u, with the amounts of the pair summed
C9_Lines(u) ==
    LET rows == {x \in IngredientInRecipe : x.recipe \in C9_CartRecipes(u)}
        pairs == {<<Ingredient[x.ingredient].name,
                    Ingredient[x.ingredient].measurement_unit>> : x \in rows}
    IN  {<<p[1], "  - ",
           C9_Total({x \in rows :
                       /\ Ingredient[x.ingredient].name = p[1]
                       /\ Ingredient[x.ingredient].measurement_unit = p[2]}),
           "(", p[2], ")\n">> : p \in pairs}

\* C9: the downloaded list has one line per (name, unit) pair of the
\* ingredients of the caller's cart recipes, with the sum of the pair's
\* amounts over those recipes, each counted once; other recipes add nothing.
C9_ShoppingListSums ==
    request.action = "download_shopping_cart" =>
        /\ response.status = 200
        /\ response.body.text = C9_Lines(request.user)

\* a download of a cart of two recipes that share an ingredient, one of
\* them with a second one; the other user holds a cart too
C9_Witness ==
    /\ request.action = "download_shopping_cart"
    /\ Cardinality(C9_CartRecipes(request.user)) = 2
    /\ Cardinality(response.body.text) = 2
    /\ \E line \in response.body.text : line[3] = 2 /\ line[5] = "g"
    /\ \E v \in Users \ {request.user} :
         /\ C9_CartRecipes(v) # {}
         /\ C9_CartRecipes(v) # C9_CartRecipes(request.user)

(* ------------- two add requests at once: SpecRace ---------------------- *)
\* Two server workers each handle one add request.  The ORM calls of a
\* handler are separate statements of the store (autocommit, no `atomic`),
\* so the calls of the two workers interleave in any order.  Under this
\* specification request and response hold one entry per worker, and the
\* request entry carries the place its handler has reached.
Workers == {1, 2}

InFlight(req, pc) ==
    [action |-> req.action, user |-> req.user, pk |-> req.pk, pc |-> pc]

\* worker w is about to run the step of handler `action` that follows pc
At(w, action, pc) == request[w].action = action /\ request[w].pc = pc

\* worker w moves on to the next statement of its handler
Goto(w, pc) ==
    /\ request' = [request EXCEPT ![w].pc = pc]
    /\ UNCHANGED response

\* worker w returns resp
Return(w, resp) ==
    /\ request' = [request EXCEPT ![w].pc = "done"]
    /\ response' = [response EXCEPT ![w] = resp]

\* views.py:176-183: get_object_or_404 and the exists() test of favorite
favorite_check(w) ==
    /\ At(w, "favorite", "received")
    /\ UNCHANGED store
    /\ IF GetRecipe(request[w].pk) = NoRecipe THEN Return(w, NotFound)
       ELSE IF FavoriteExists(request[w].user, request[w].pk)
       THEN Return(w, ValidationError("already in favorites"))
       ELSE Goto(w, "checked")

\* views.py:188-189: serializer.is_valid, which runs FavoriteSerializer.validate
favorite_is_valid(w) ==
    /\ At(w, "favorite", "checked")
    /\ UNCHANGED store
    /\ IF ~FavoriteSerializer_validate(request[w].user, request[w].pk)
       THEN Return(w, ValidationError("already in favorites"))
       ELSE Goto(w, "validated")

\* views.py:190-191: serializer.save() inserts the row; the response follows
favorite_save(w) ==
    LET row == [user |-> request[w].user, recipe |-> request[w].pk]
        rep == FavoriteSerializer_to_representation(row)
    IN  /\ At(w, "favorite", "validated")
        /\ Favorite' = CreateRow(Favorite, row)
        /\ Return(w, IF rep.ok THEN Resp(201, rep.data) ELSE Fault(rep.data))
        /\ UNCHANGED <<ShoppingCart, Follow>>
        /\ RecipesUnchanged

\* views.py:223-231: get_object_or_404 and the exists() test of shopping_cart
shopping_cart_check(w) ==
    /\ At(w, "shopping_cart", "received")
    /\ UNCHANGED store
    /\ IF GetRecipe(request[w].pk) = NoRecipe THEN Return(w, NotFound)
       ELSE IF ShoppingCartExists(request[w].user, request[w].pk)
       THEN Return(w, ValidationError("already in the shopping list"))
       ELSE Goto(w, "checked")

\* views.py:232-234: ShoppingCart.objects.create, then the response
shopping_cart_create(w) ==
    LET row == [user |-> request[w].user, recipe |-> request[w].pk]
        rep == FavoriteSerializer_to_representation(GetRecipe(request[w].pk))
    IN  /\ At(w, "shopping_cart", "checked")
        /\ ShoppingCart' = CreateRow(ShoppingCart, row)
        /\ Return(w, IF rep.ok THEN Resp(201, rep.data) ELSE Fault(rep.data))
        /\ UNCHANGED <<Favorite, Follow>>
        /\ RecipesUnchanged

\* views.py:113-121: get_object and serializer.is_valid, which runs
\* FollowPostSerializer.validate
subscribe_is_valid(w) ==
    LET verdict ==
            FollowPostSerializer_validate(request[w].user, request[w].pk)
    IN  /\ At(w, "subscribe", "received")
        /\ UNCHANGED store
        /\ IF request[w].pk \notin Users THEN Return(w, NotFound)
           ELSE IF verdict = "self"
           THEN Return(w, ValidationError("cannot follow yourself"))
           ELSE IF verdict = "subscribed"
           THEN Return(w, ValidationError("already subscribed"))
           ELSE Goto(w, "validated")

\* views.py:122-126: serializer.save() inserts the row; serializer.data is
\* built after it
subscribe_save(w) ==
    LET u == request[w].user
        pk == request[w].pk
        row == [user |-> u, author |-> pk]
    IN  /\ At(w, "subscribe", "validated")
        /\ Follow' = CreateRow(Follow, row)
        /\ Return(w, Resp(201,
             [id |-> pk, is_subscribed |-> TRUE,
              recipes |-> FollowSerializer(u, pk).recipes,
              recipes_count |-> FollowSerializer(u, pk).recipes_count]))
        /\ UNCHANGED <<Favorite, ShoppingCart>>
        /\ RecipesUnchanged

\* the add requests a worker may be handed
AddRequests ==
    {Req("favorite", u, pk) : u \in Users, pk \in TogglePks}
    \cup {Req("shopping_cart", u, pk) : u \in Users, pk \in TogglePks}
    \cup {Req("subscribe", u, pk) : u \in Users, pk \in UserPks}

\* rows stored by earlier requests: none, or one in each relation
EarlierRows == {EmptyBag, SetToBag({[user |-> 1, recipe |-> SeedRecipe.id]})}
EarlierFollows == {EmptyBag, SetToBag({[user |-> 1, author |-> 2]})}

InitRace ==
    /\ Recipe = {SeedRecipe}
    /\ IngredientInRecipe = {}
    /\ RecipeTags = {}
    /\ Favorite \in EarlierRows
    /\ ShoppingCart = Favorite
    /\ Follow \in EarlierFollows
    /\ recipe_id_seq = SeedRecipe.id
    /\ request = [w \in Workers |-> InFlight(NoRequest, "idle")]
    /\ response = [w \in Workers |-> NoResponse]

\* a worker takes a request off the wire
Race_receive ==
    \E w \in Workers, req \in AddRequests :
        /\ request[w].pc = "idle"
        /\ request' = [request EXCEPT ![w] = InFlight(req, "received")]
        /\ UNCHANGED response
        /\ UNCHANGED store

Race_favorite_check == \E w \in Workers : favorite_check(w)
Race_favorite_is_valid == \E w \in Workers : favorite_is_valid(w)
Race_favorite_save == \E w \in Workers : favorite_save(w)
Race_shopping_cart_check == \E w \in Workers : shopping_cart_check(w)
Race_shopping_cart_create == \E w \in Workers : shopping_cart_create(w)
Race_subscribe_is_valid == \E w \in Workers : subscribe_is_valid(w)
Race_subscribe_save == \E w \in Workers : subscribe_save(w)

NextRace ==
    \/ Race_receive
    \/ Race_favorite_check
    \/ Race_favorite_is_valid
    \/ Race_favorite_save
    \/ Race_shopping_cart_check
    \/ Race_shopping_cart_create
    \/ Race_subscribe_is_valid
    \/ Race_subscribe_save

SpecRace == InitRace /\ [][NextRace]_vars

(* --------------------- claims on concurrent adds ----------------------- *)
\* the two workers handle add requests for the same key pair
C11_SamePair ==
    /\ request[1].action \in {"favorite", "shopping_cart", "subscribe"}
    /\ request[1].action = request[2].action
    /\ request[1].user = request[2].user
    /\ request[1].pk = request[2].pk

\* the rows of the relation for the pair of the request of worker w
C11_RowsOfPair(w) ==
    CASE request[w].action = "favorite" ->
           CopiesIn([user |-> request[w].user, recipe |-> request[w].pk],
                    Favorite)
      [] request[w].action = "shopping_cart" ->
           CopiesIn([user |-> request[w].user, recipe |-> request[w].pk],
                    ShoppingCart)
      [] request[w].action = "subscribe" ->
           CopiesIn([user |-> request[w].user, author |-> request[w].pk],
                    Follow)
      [] OTHER -> 0

\* C11: when two add requests for the same key pair (favorite add, cart add
\* or subscribe) run concurrently, their existence checks and inserts
\* interleaved in any order, at most one row for the pair exists and at most
\* one of the two requests is answered 201.
C11_RaceProof ==
    C11_SamePair =>
        /\ C11_RowsOfPair(1) <= 1
        /\ ~(response[1].status = 201 /\ response[2].status = 201)

(* ---------------- toggles among other rows: SpecFrame ------------------ *)
\* Two published recipes, each with ingredient rows and a tag, and the six
\* toggle requests by every user for either recipe, for a recipe that does
\* not exist and for every user id.
OtherRecipe ==
    [id |-> 2, author |-> 2, name |-> "bread", image |-> "loaf.png",
     text |-> "bake", cooking_time |-> 40]

FramePks == {SeedRecipe.id, OtherRecipe.id, OtherRecipe.id + 1}

\* rows in the three join tables together
JoinRows ==
    BagCardinality(Favorite) + BagCardinality(ShoppingCart)
        + BagCardinality(Follow)

InitFrame ==
    /\ Recipe = {SeedRecipe, OtherRecipe}
    /\ IngredientInRecipe =
          {[recipe |-> SeedRecipe.id, ingredient |-> 2, amount |-> 1],
           [recipe |-> OtherRecipe.id, ingredient |-> 1, amount |-> 2],
           [recipe |-> OtherRecipe.id, ingredient |-> 2, amount |-> 1]}
    /\ RecipeTags = {[recipe |-> SeedRecipe.id, tag |-> 1],
                     [recipe |-> OtherRecipe.id, tag |-> 2]}
    /\ Favorite = EmptyBag
    /\ ShoppingCart = EmptyBag
    /\ Follow = EmptyBag
    /\ recipe_id_seq = OtherRecipe.id
    /\ request = NoRequest
    /\ response = NoResponse

Frame_favorite ==
    /\ JoinRows < MaxRows
    /\ \E u \in Users, pk \in FramePks : favorite(u, pk)
Frame_delete_recipe ==
    \E u \in Users, pk \in FramePks : delete_recipe(u, pk)
Frame_shopping_cart ==
    /\ JoinRows < MaxRows
    /\ \E u \in Users, pk \in FramePks : shopping_cart(u, pk)
Frame_shopping_cart_delete ==
    \E u \in Users, pk \in FramePks : shopping_cart_delete(u, pk)
Frame_subscribe ==
    /\ JoinRows < MaxRows
    /\ \E u \in Users, pk \in UserPks : subscribe(u, pk)
Frame_subscribe_delete ==
    \E u \in Users, pk \in UserPks : subscribe_delete(u, pk)

NextFrame ==
    \/ Frame_favorite
    \/ Frame_delete_recipe
    \/ Frame_shopping_cart
    \/ Frame_shopping_cart_delete
    \/ Frame_subscribe
    \/ Frame_subscribe_delete

SpecFrame == InitFrame /\ [][NextFrame]_vars

(* ------------------- claims on what a toggle touches ------------------- *)
\* every row but `own` has as many copies in `after` as in `before`, and
\* `own` has at most one in `after`
C12_OnlyOwnRow(before, after, own) ==
    /\ \A row \in (DOMAIN before \cup DOMAIN after) \ {own} :
          CopiesIn(row, after) = CopiesIn(row, before)
    /\ CopiesIn(own, after) <= 1

\* C12: a favorite add/remove, cart add/remove or subscribe/unsubscribe by
\* caller U for target X changes at most the row (U, X) of its own relation:
\* the other two relations, the other rows of the same relation, and the
\* recipes with their ingredient and tag associations stay as they were,
\* whether the request succeeds or is rejected.
C12_ToggleTouchesOwnRowOnly ==
    [][LET U == request'.user
           X == request'.pk
       IN  /\ UNCHANGED <<Recipe, IngredientInRecipe, RecipeTags>>
           /\ request'.action \in {"favorite", "delete_recipe"} =>
                /\ C12_OnlyOwnRow(Favorite, Favorite',
                                  [user |-> U, recipe |-> X])
                /\ UNCHANGED <<ShoppingCart, Follow>>
           /\ request'.action \in {"shopping_cart", "shopping_cart_delete"} =>
                /\ C12_OnlyOwnRow(ShoppingCart, ShoppingCart',
                                  [user |-> U, recipe |-> X])
                /\ UNCHANGED <<Favorite, Follow>>
           /\ request'.action \in {"subscribe", "subscribe_delete"} =>
                /\ C12_OnlyOwnRow(Follow, Follow', [user |-> U, author |-> X])
                /\ UNCHANGED <<Favorite, ShoppingCart>>]_vars

\* a favorite was removed while the caller held a favorite for the other
\* recipe and the same recipe in their cart
C12_Witness ==
    /\ request.action = "delete_recipe"
    /\ response.status = 204
    /\ ~FavoriteExists(request.user, request.pk)
    /\ \E pk \in RecipeIds \ {request.pk} : FavoriteExists(request.user, pk)
    /\ ShoppingCartExists(request.user, request.pk)

====
